---- MODULE Spec2Model ----
(***************************************************************************)
(* A model of src/utc.rs of hifitime: the calendar validator Utc::new, the *)
(* two converters Utc::as_instant and Utc::from_instant, and the helper    *)
(* quorem.                                                                 *)
(*                                                                         *)
(* Numbers.  The source computes in f64 and stores the result in a u64.    *)
(* TLC's integers are 32 bits wide and the second counts of the years      *)
(* after 1968 are not, so a number is held as the digits of a mixed-radix  *)
(* numeral:                                                                *)
(*    u64 second count   [day, sec]         day*86400 + sec                *)
(*    f64 value          [day, tenth, ulp]  day*86400 + tenth/10           *)
(*                                          + ulp / (10 * 2^30)  seconds   *)
(* The f64 numeral is exact for every value the source computes: all of    *)
(* them are integers, except the product 30.4365 * SECONDS_PER_DAY, whose  *)
(* f64 value is exactly 2629713.6 + 2^-30/10, and the remainders of        *)
(* divisions by it (the % of f64 is exact).                                *)
(***************************************************************************)
EXTENDS Integers, Sequences, FiniteSets

VARIABLES pc, arg, utc, inst, calls, back

vars == <<pc, arg, utc, inst, calls, back>>

----------------------------------------------------------------------------
(* Program constants *)

SECONDS_PER_DAY == 86400

USUAL_DAYS_PER_YEAR == 365

EPOCH_YEAR == 1900

NANOS_LIMIT == 1000000000

JANUARY_YEARS ==
    {1972, 1973, 1974, 1975, 1976, 1977, 1978, 1979, 1980, 1988, 1990, 1991,
     1996, 1999, 2006, 2009, 2017}

JULY_YEARS ==
    {1972, 1981, 1982, 1983, 1985, 1992, 1993, 1994, 1997, 2012, 2015}

USUAL_DAYS_PER_MONTH == <<31, 28, 31, 30, 31, 30, 31, 31, 30, 31, 30, 31>>

\* year % 4 == 0 && year % 100 != 0 || year % 400 == 0
is_leap_year(year) ==
    (year % 4 = 0 /\ year % 100 # 0) \/ year % 400 = 0

\* the width of the u8 fields that from_instant casts to
U8 == 256

----------------------------------------------------------------------------
(* f64 numerals *)

TENTHS_PER_DAY == 864000

\* 2^30: one tenth of a second is 2^30 units of the last digit
ULPS_PER_TENTH == 1073741824

\* 2^24, see RoundsToNext
ROUND_SCALE == 16777216

Norm(v) ==
    LET t1 == v.tenth + (v.ulp \div ULPS_PER_TENTH)
    IN  [day   |-> v.day + (t1 \div TENTHS_PER_DAY),
         tenth |-> t1 % TENTHS_PER_DAY,
         ulp   |-> v.ulp % ULPS_PER_TENTH]

F64Zero == [day |-> 0, tenth |-> 0, ulp |-> 0]

F64Days(n) == [day |-> n, tenth |-> 0, ulp |-> 0]

F64Secs(n) == Norm([day |-> 0, tenth |-> 10 * n, ulp |-> 0])

Less(a, b) ==
    \/ a.day < b.day
    \/ a.day = b.day /\ a.tenth < b.tenth
    \/ a.day = b.day /\ a.tenth = b.tenth /\ a.ulp < b.ulp

Mul(q, d) ==
    Norm([day |-> q * d.day, tenth |-> q * d.tenth, ulp |-> q * d.ulp])

Sub(a, b) ==
    Norm([day   |-> a.day - b.day,
          tenth |-> a.tenth - b.tenth,
          ulp   |-> a.ulp - b.ulp])

Add(a, b) ==
    Norm([day   |-> a.day + b.day,
          tenth |-> a.tenth + b.tenth,
          ulp   |-> a.ulp + b.ulp])

\* 30.4365 * SECONDS_PER_DAY as the f64 multiplication rounds it:
\* 30 days + 37713.6 s + 2^-30/10 s
MONTH_LENGTH == [day |-> 30, tenth |-> 377136, ulp |-> 1]

\* u64 -> f64 (exact below 2^53) and f64 -> u64 (truncation)
U64ToF64(s) == Norm([day |-> s.day, tenth |-> 10 * s.sec, ulp |-> 0])

F64ToU64(v) == [day |-> v.day, sec |-> v.tenth \div 10]

NormSecs(days, secs) ==
    [day |-> days + (secs \div SECONDS_PER_DAY), sec |-> secs % SECONDS_PER_DAY]

----------------------------------------------------------------------------
(* quorem *)

\* the least power of two that is >= x (x >= 1)
RECURSIVE PowerOfTwoAtLeast(_, _)
PowerOfTwoAtLeast(x, p) == IF p >= x THEN p ELSE PowerOfTwoAtLeast(x, 2 * p)

\* floor(numerator / denominator) over the reals
RealQuotient(n, d) ==
    IF d.tenth = 0 /\ d.ulp = 0
    THEN n.day \div d.day
    ELSE LET nf == n.day * TENTHS_PER_DAY + n.tenth
             df == d.day * TENTHS_PER_DAY + d.tenth
             q0 == nf \div df
         IN  IF Less(n, Mul(q0, d)) THEN q0 - 1 ELSE q0

\* (numerator / denominator) is one f64 division, rounded to nearest: a real
\* quotient that lies below the integer x by less than half the spacing of
\* the f64 values under x is rounded to x itself.  With gap = x*d - n a
\* count g of last-digit units and 2^j < x <= 2^(j+1), that is
\*     g / (2^30 * d_tenths) < 2^(j-53),  i.e.  g * 2^24 < 2^(j+1) * d_tenths
RoundsToNext(n, d, x) ==
    LET gap == Sub(Mul(x, d), n)
        dt  == d.day * TENTHS_PER_DAY + d.tenth
    IN  /\ gap.day = 0
        /\ gap.tenth = 0
        /\ gap.ulp < 128
        /\ gap.ulp * ROUND_SCALE < PowerOfTwoAtLeast(x, 1) * dt

\* fn quorem(numerator: f64, denominator: f64) -> (i32, f64)
quorem(numerator, denominator) ==
    IF Less(numerator, F64Zero) \/ Less(denominator, F64Zero)
    THEN [panic |-> "quorem only supports positive numbers",
          n |-> numerator, d |-> denominator, q |-> 0, r |-> F64Zero]
    ELSE IF denominator = F64Zero
    THEN [panic |-> "cannot divide by zero",
          n |-> numerator, d |-> denominator, q |-> 0, r |-> F64Zero]
    ELSE LET qr == RealQuotient(numerator, denominator)
         IN  [panic |-> "none", n |-> numerator, d |-> denominator,
              \* (numerator / denominator).floor() as i32
              q |-> IF RoundsToNext(numerator, denominator, qr + 1)
                    THEN qr + 1 ELSE qr,
              \* numerator % denominator, exact
              r |-> Sub(numerator, Mul(qr, denominator))]

----------------------------------------------------------------------------
(* Utc::new *)

MkUtc(year, month, day, hour, minute, second, nanos) ==
    [year |-> year, month |-> month, day |-> day, hour |-> hour,
     minute |-> minute, second |-> second, nanos |-> nanos]

NoUtc == MkUtc(0, 0, 0, 0, 0, 0, 0)

Ok(u) == [ok |-> TRUE, err |-> "none", val |-> u]

Err(e) == [ok |-> FALSE, err |-> e, val |-> NoUtc]

max_secondsSameYear(year, month, day, hour, minute) ==
    IF /\ (month = 12 \/ month = 6)
       /\ day = USUAL_DAYS_PER_MONTH[month]
       /\ hour = 23
       /\ minute = 59
       /\ \/ (month = 6 /\ year \in JULY_YEARS)
          \/ (month = 12 /\ year \in JANUARY_YEARS)
    THEN 60
    ELSE 59

\* let mut max_seconds: u8 = 59; if ... { max_seconds = 60; }
max_seconds(year, month, day, hour, minute) ==
    IF /\ (month = 12 \/ month = 6)
       /\ day = USUAL_DAYS_PER_MONTH[month]
       /\ hour = 23
       /\ minute = 59
       /\ \/ (month = 6 /\ year \in JULY_YEARS)
          \/ (month = 12 /\ (year + 1) \in JANUARY_YEARS)
    THEN 60
    ELSE 59

\* fn new(year, month, day, hour, minute, second, nanos) -> Result<Utc, Errors>
new(year, month, day, hour, minute, second, nanos) ==
    IF \/ month = 0 \/ month > 12 \/ day = 0 \/ day > 31 \/ hour > 24
       \/ minute > 59
       \/ second > max_seconds(year, month, day, hour, minute)
       \/ nanos > NANOS_LIMIT
    THEN Err("Carry")
    ELSE IF /\ day > USUAL_DAYS_PER_MONTH[month]
            /\ (month # 2 \/ ~is_leap_year(year))
    THEN Err("Carry")
    ELSE Ok(MkUtc(year, month, day, hour, minute, second, nanos))

NewOf(u) == new(u.year, u.month, u.day, u.hour, u.minute, u.second, u.nanos)

----------------------------------------------------------------------------
(* Instant *)

MkInstant(seconds, nanos, era) ==
    [seconds |-> seconds, nanos |-> nanos, era |-> era]

NoInstant == MkInstant([day |-> 0, sec |-> 0], 0, "none")

\* the elapsed-time order of two instants of the era Present
InstantLess(a, b) ==
    \/ a.seconds.day < b.seconds.day
    \/ a.seconds.day = b.seconds.day /\ a.seconds.sec < b.seconds.sec
    \/ a.seconds = b.seconds /\ a.nanos < b.nanos

\* #[derive(PartialOrd)] on Utc: the fields in declaration order
UtcLess(a, b) ==
    LET ka == <<a.year, a.month, a.day, a.hour, a.minute, a.second, a.nanos>>
        kb == <<b.year, b.month, b.day, b.hour, b.minute, b.second, b.nanos>>
    IN  \E i \in 1..7 : ka[i] < kb[i] /\ \A j \in 1..(i - 1) : ka[j] = kb[j]

----------------------------------------------------------------------------
(* Utc::as_instant *)

Abs(x) == IF x < 0 THEN -x ELSE x

\* for year in 1900..self.year { if is_leap_year(year) { += SECONDS_PER_DAY } }
RECURSIVE LeapDaysFrom(_, _)
LeapDaysFrom(year, end) ==
    IF year >= end THEN 0
    ELSE (IF is_leap_year(year) THEN 1 ELSE 0) + LeapDaysFrom(year + 1, end)

\* for month in 0..self.month - 1 { += SECONDS_PER_DAY * USUAL_DAYS_PER_MONTH[month] }
RECURSIVE MonthDaysBefore(_)
MonthDaysBefore(month) ==
    IF month <= 1 THEN 0
    ELSE USUAL_DAYS_PER_MONTH[month - 1] + MonthDaysBefore(month - 1)

as_instantNoCorrection(self) ==
    LET era  == IF self.year >= EPOCH_YEAR THEN "Present" ELSE "Past"
        days == Abs(self.year - EPOCH_YEAR) * USUAL_DAYS_PER_YEAR
                + LeapDaysFrom(EPOCH_YEAR, self.year)
                + MonthDaysBefore(self.month)
                + (IF is_leap_year(self.year)
                      /\ ((self.month = 2 /\ self.day = 29) \/ self.month > 2)
                   THEN 1 ELSE 0)
                + (self.day - 1)
        secs == self.hour * 3600 + self.minute * 60 + self.second
    IN  MkInstant(NormSecs(days, secs), self.nanos, era)

as_instantCorrectsFrom59(self) ==
    LET era  == IF self.year >= EPOCH_YEAR THEN "Present" ELSE "Past"
        days == Abs(self.year - EPOCH_YEAR) * USUAL_DAYS_PER_YEAR
                + LeapDaysFrom(EPOCH_YEAR, self.year)
                + MonthDaysBefore(self.month)
                + (IF is_leap_year(self.year)
                      /\ ((self.month = 2 /\ self.day = 29) \/ self.month > 2)
                   THEN 1 ELSE 0)
                + (self.day - 1)
        secs == self.hour * 3600 + self.minute * 60 + self.second
                - (IF self.second >= 59 THEN 1 ELSE 0)
    IN  MkInstant(NormSecs(days, secs), self.nanos, era)

\* fn as_instant(self) -> Instant
as_instant(self) ==
    LET era  == IF self.year >= EPOCH_YEAR THEN "Present" ELSE "Past"
        \* everything the source adds in whole days
        days == Abs(self.year - EPOCH_YEAR) * USUAL_DAYS_PER_YEAR
                + LeapDaysFrom(EPOCH_YEAR, self.year)
                + MonthDaysBefore(self.month)
                + (IF is_leap_year(self.year)
                      /\ ((self.month = 2 /\ self.day = 29) \/ self.month > 2)
                   THEN 1 ELSE 0)
                + (self.day - 1)
        \* and the rest, with the leap-second correction
        secs == self.hour * 3600 + self.minute * 60 + self.second
                - (IF self.second = 60 THEN 1 ELSE 0)
    IN  MkInstant(NormSecs(days, secs), self.nanos, era)

----------------------------------------------------------------------------
(* Utc::from_instant *)

\* fn from_instant(instant: Instant) -> Utc
from_instant(instant) ==
    LET c1     == quorem(U64ToF64(instant.seconds),
                         F64Days(USUAL_DAYS_PER_YEAR))
        year   == c1.q
        c2     == quorem(c1.r, MONTH_LENGTH)
        month  == c2.q + 1
        days_this_month ==
            USUAL_DAYS_PER_MONTH[month]
            + (IF month = 2 /\ is_leap_year(year) THEN 1 ELSE 0)
        c3     == quorem(c2.r, F64Days(days_this_month))
        day    == c3.q + 1
        c4     == quorem(c3.r, F64Secs(60 * 60))
        c5     == quorem(c4.r, F64Secs(60))
        secs   == F64ToU64(c5.r).sec
        all    == <<c1, c2, c3, c4, c5>>
        res    == new(IF instant.era = "Past"
                      THEN EPOCH_YEAR - year ELSE EPOCH_YEAR + year,
                      month % U8, day % U8, c4.q % U8, c5.q % U8, secs % U8,
                      instant.nanos)
    IN  IF \E i \in 1..5 : all[i].panic # "none"
        THEN [calls |-> all, panic |-> "quorem", val |-> NoUtc]
        ELSE IF ~res.ok
        THEN [calls |-> all,
              panic |-> "date computed from instant is invalid",
              val |-> NoUtc]
        ELSE [calls |-> all, panic |-> "none", val |-> res.val]

----------------------------------------------------------------------------
(* The inputs *)

\* years before and after the epoch year, years from the first leap second
\* on, and multiples of the month length probed by from_instant
YearsBefore == 2

YearsAfter == 4

LeapSecondYears == 2

MaxProbe == 12

FIRST_LEAP_SECOND_YEAR == 1971

Years ==
    ((EPOCH_YEAR - YearsBefore)..(EPOCH_YEAR + YearsAfter))
    \cup (FIRST_LEAP_SECOND_YEAR..(FIRST_LEAP_SECOND_YEAR + LeapSecondYears))
    \cup {2000}

Months == {0, 1, 2, 3, 6, 7, 11, 12, 13}

Days == {0, 1, 28, 29, 30, 31, 32}

Hours == {0, 23, 24, 25}

Minutes == {0, 59, 60}

Seconds == {0, 59, 60, 61}

Nanos == {0, NANOS_LIMIT, NANOS_LIMIT + 1}

Candidates ==
    {MkUtc(y, mo, d, h, mi, s, n) :
        y \in Years, mo \in Months, d \in Days, h \in Hours,
        mi \in Minutes, s \in Seconds, n \in Nanos}

\* instants around the multiples of 30.4365 days, in the first years of
\* either era
ProbeSeconds ==
    {s \in {(k * 26297136) \div 10 + j : k \in 0..MaxProbe, j \in {-1, 0, 1}} :
        s >= 0}

ProbeInstants ==
    {MkInstant(NormSecs(y * USUAL_DAYS_PER_YEAR, s), 0, era) :
        y \in 0..YearsAfter, s \in ProbeSeconds, era \in {"Past", "Present"}}

NoResult == [ok |-> FALSE, err |-> "none", val |-> NoUtc]

NoBack == [calls |-> <<>>, panic |-> "none", val |-> NoUtc]

----------------------------------------------------------------------------
(* The callers: Utc::new on a candidate, as_instant on what it accepted,   *)
(* from_instant on the instant; or from_instant on an instant of the       *)
(* caller's own.                                                           *)

Init ==
    /\ utc = NoResult
    /\ back = NoBack
    /\ calls = <<>>
    /\ \/ pc = "new" /\ arg \in Candidates /\ inst = NoInstant
       \/ pc = "from" /\ arg = NoUtc /\ inst \in ProbeInstants

CallNew ==
    /\ pc = "new"
    /\ utc' = NewOf(arg)
    /\ pc' = IF utc'.ok THEN "as" ELSE "rejected"
    /\ UNCHANGED <<arg, inst, calls, back>>

CallAsInstant ==
    /\ pc = "as"
    /\ inst' = as_instant(utc.val)
    /\ pc' = "from"
    /\ UNCHANGED <<arg, utc, calls, back>>

CallFromInstant ==
    /\ pc = "from"
    /\ back' = from_instant(inst)
    /\ calls' = back'.calls
    /\ pc' = IF back'.panic = "none" THEN "done" ELSE "panicked"
    /\ UNCHANGED <<arg, utc, inst>>

Next == CallNew \/ CallAsInstant \/ CallFromInstant

Spec == Init /\ [][Next]_vars

\* Utc::new has returned for the candidate arg
Validated == arg # NoUtc /\ pc # "new"

\* as_instant has returned for the accepted candidate
Converted == arg # NoUtc /\ pc \in {"from", "done", "panicked"}

\* from_instant has returned or aborted
Decomposed == pc \in {"done", "panicked"}

----------------------------------------------------------------------------
(* The calendar the claims refer to *)

DaysInMonth(year, month) ==
    IF month = 2 /\ is_leap_year(year) THEN 29 ELSE USUAL_DAYS_PER_MONTH[month]

DaysInYear(year) == IF is_leap_year(year) THEN 366 ELSE 365

RECURSIVE DaysOfYears(_, _)
DaysOfYears(from, to) ==
    IF from >= to THEN 0 ELSE DaysInYear(from) + DaysOfYears(from + 1, to)

RECURSIVE DaysOfMonths(_, _)
DaysOfMonths(year, month) ==
    IF month <= 1 THEN 0
    ELSE DaysInMonth(year, month - 1) + DaysOfMonths(year, month - 1)

\* days from January 1st of its year to the date
DayOfYear(u) == DaysOfMonths(u.year, u.month) + (u.day - 1)

SecondOfDay(u) == 3600 * u.hour + 60 * u.minute + u.second

\* the last minute of a day that carries a leap second
LeapSlot(u) ==
    /\ u.hour = 23
    /\ u.minute = 59
    /\ \/ (u.month = 6 /\ u.day = 30 /\ u.year \in JULY_YEARS)
       \/ (u.month = 12 /\ u.day = 31 /\ (u.year + 1) \in JANUARY_YEARS)

At59(u) == [u EXCEPT !.second = 59]

NextDay(u) ==
    IF u.month = 12
    THEN MkUtc(u.year + 1, 1, 1, 0, 0, 0, 0)
    ELSE MkUtc(u.year, u.month + 1, 1, 0, 0, 0, 0)

PlusSeconds(i, n) ==
    MkInstant(NormSecs(i.seconds.day, i.seconds.sec + n), i.nanos, i.era)

----------------------------------------------------------------------------
(* Claims *)

\* C1: every value u that Utc::new accepts with second # 60 comes back from
\* from_instant(u.as_instant()) equal to u field by field.
C1_RoundTrip ==
    (Decomposed /\ arg # NoUtc /\ utc.val.second # 60)
        => (back.panic = "none" /\ back.val = utc.val)

\* C2: from_instant is total: for every Instant with nanos < 1_000_000_000
\* the candidate it decomposes is accepted by Utc::new, and the abort
\* "date computed from instant is invalid" is never reached.
C2_FromInstantTotal ==
    (Decomposed /\ inst.nanos < NANOS_LIMIT) => back.panic = "none"

\* C3 (as claimed): on a date where second == 60 is accepted, as_instant at
\* 23:59:60 is as_instant at 23:59:59 of the same minute plus exactly one
\* second, and the two instants differ.
C3_LeapSecondElapses ==
    (Converted /\ utc.val.second = 60)
        => /\ NewOf(At59(utc.val)).ok
           /\ inst = PlusSeconds(as_instant(At59(utc.val)), 1)
           /\ inst # as_instant(At59(utc.val))

\* C3 (amended): on a date where second == 60 is accepted, as_instant at
\* 23:59:60 equals as_instant at 23:59:59 of the same minute (same seconds,
\* same era, same nanos): the two instants are equal.
C3_LeapSecondCollapses ==
    (Converted /\ utc.val.second = 60)
        => /\ NewOf(At59(utc.val)).ok
           /\ inst.seconds = as_instant(At59(utc.val)).seconds
           /\ inst.era = as_instant(At59(utc.val)).era
           /\ inst.nanos = as_instant(At59(utc.val)).nanos
           /\ inst.nanos = utc.val.nanos

C3_Witness ==
    /\ Converted
    /\ utc.val = MkUtc(1971, 12, 31, 23, 59, 60, 0)
    /\ inst = MkInstant([day |-> 26296, sec |-> 86399], 0, "Present")

\* C4: across a leap second the calendar order is strictly increasing,
\* 23:59:59 < 23:59:60 < next day 00:00:00, while the instants go from
\* equality to less: as_instant(23:59:59) == as_instant(23:59:60) and
\* as_instant(23:59:60) < as_instant(next day 00:00:00).
C4_OrderAcrossLeapSecond ==
    (Converted /\ utc.val.second = 60)
        => /\ NewOf(At59(utc.val)).ok
           /\ NewOf(NextDay(utc.val)).ok
           /\ UtcLess(At59(utc.val), utc.val)
           /\ UtcLess(utc.val, NextDay(utc.val))
           /\ as_instant(At59(utc.val)) = inst
           /\ ~InstantLess(as_instant(At59(utc.val)), inst)
           /\ InstantLess(inst, as_instant(NextDay(utc.val)))

C4_Witness ==
    /\ Converted
    /\ utc.val.second = 60
    /\ utc.val.month = 6
    /\ inst.era = "Present"

\* C5: Utc::new accepts second == 60 exactly in the last minute of June 30
\* of a year of the July list or of December 31 of a year whose successor is
\* in the January list; every other second == 60 is rejected with Carry, and
\* second > 60 is always rejected.
C5_LeapSecondGating ==
    Validated =>
        /\ (arg.second = 60 /\ utc.ok) => LeapSlot(arg)
        /\ (arg.second = 60 /\ LeapSlot(arg) /\ arg.nanos < NANOS_LIMIT)
               => (utc.ok /\ utc.val = arg)
        /\ (arg.second = 60 /\ ~LeapSlot(arg))
               => (~utc.ok /\ utc.err = "Carry")
        /\ arg.second > 60 => (~utc.ok /\ utc.err = "Carry")

C5_Witness ==
    /\ Validated
    /\ arg = MkUtc(1971, 12, 31, 23, 59, 60, 0)
    /\ utc.ok

\* C6: Utc::new returns Carry whenever day exceeds the standard length of
\* month, the only exception being February 29 of a leap year; February 30
\* and 31 are rejected in every year.
C6_DayOfMonth ==
    (/\ Validated
     /\ arg.month \in 1..12
     /\ arg.day > USUAL_DAYS_PER_MONTH[arg.month]
     /\ ~(arg.month = 2 /\ arg.day = 29 /\ is_leap_year(arg.year)))
        => (~utc.ok /\ utc.err = "Carry")

\* C7: every Utc that Utc::new returns as Ok has month in 1..12, day in
\* 1..31, hour in 0..23, minute in 0..59, second in 0..60 and nanos in
\* 0..999_999_999, so the Instant of as_instant has nanos < 1_000_000_000;
\* any input outside these bounds yields Carry.
FieldsInBounds(u) ==
    /\ u.month \in 1..12
    /\ u.day \in 1..31
    /\ u.hour \in 0..23
    /\ u.minute \in 0..59
    /\ u.second \in 0..60
    /\ u.nanos \in 0..(NANOS_LIMIT - 1)

C7_FieldBounds ==
    /\ (Validated /\ utc.ok) => FieldsInBounds(utc.val)
    /\ (Validated /\ ~FieldsInBounds(arg)) => (~utc.ok /\ utc.err = "Carry")
    /\ Converted => inst.nanos < NANOS_LIMIT

\* C8: for every accepted Utc with year >= 1900 and second <= 59, as_instant
\* returns era Present, the input nanos, and
\* seconds == 86400 * D + 3600*hour + 60*minute + second with D the number
\* of Gregorian days from 1900-01-01 to the date.
C8_GregorianCount ==
    (Converted /\ utc.val.year >= EPOCH_YEAR /\ utc.val.second <= 59)
        => /\ inst.era = "Present"
           /\ inst.nanos = utc.val.nanos
           /\ inst.seconds =
                 NormSecs(DaysOfYears(EPOCH_YEAR, utc.val.year)
                              + DayOfYear(utc.val),
                          SecondOfDay(utc.val))

\* C9: for every accepted Utc with year < 1900, as_instant returns era Past
\* and the absolute elapsed time between the date and 1900-01-01T00:00:00.
C9_PastMagnitude ==
    (Converted /\ utc.val.year < EPOCH_YEAR)
        => /\ inst.era = "Past"
           /\ inst.seconds =
                 NormSecs(DaysOfYears(utc.val.year, EPOCH_YEAR)
                              - DayOfYear(utc.val),
                          - SecondOfDay(utc.val)
                          + (IF utc.val.second = 60 THEN 1 ELSE 0))

\* C10: quorem aborts on a negative operand or a zero denominator; for
\* n >= 0 and d > 0 it returns (q, r) with q = floor(n / d), 0 <= r < d and
\* q*d + r == n; and from_instant never calls it with a negative operand or
\* a zero denominator.
QuoremTestNumerators == {F64Secs(n) : n \in {-24, 5, 6, 24, 25, 3540}}

QuoremTestDenominators == {F64Secs(n) : n \in {-6, 0, 6, 60, 3600}}

C10_Quorem ==
    Decomposed =>
       /\ \A n \in QuoremTestNumerators, d \in QuoremTestDenominators :
             (Less(n, F64Zero) \/ Less(d, F64Zero) \/ d = F64Zero)
                 <=> quorem(n, d).panic # "none"
       /\ quorem(F64Secs(3540), F64Secs(3600)).q = 0
       /\ quorem(F64Secs(3540), F64Secs(3600)).r = F64Secs(3540)
       /\ quorem(F64Secs(3540), F64Secs(60)).q = 59
       /\ quorem(F64Secs(3540), F64Secs(60)).r = F64Zero
       /\ \A i \in 1..Len(calls) :
             /\ calls[i].panic = "none"
             /\ ~Less(calls[i].n, F64Zero)
             /\ Less(F64Zero, calls[i].d)
             /\ ~Less(calls[i].r, F64Zero)
             /\ Less(calls[i].r, calls[i].d)
             /\ Add(Mul(calls[i].q, calls[i].d), calls[i].r) = calls[i].n

====
